---- MODULE Spec2Model ----
(***************************************************************************)
(* Model of the desktop tool's order pipeline (desktop-tool/src/order.py): *)
(* construction of Details, CardImage, CardImageCollection and CardOrder   *)
(* from an order document, and the concurrent download of a collection's   *)
(* images on a thread pool.                                                *)
(*                                                                         *)
(* Strings (drive ids, names, paths) are sequences of one-character        *)
(* strings; Python's None is the one-element sequence None below, which no *)
(* string of single characters equals.                                     *)
(***************************************************************************)
EXTENDS Integers, Sequences, FiniteSets, TLC

VARIABLES
    fs,         \* the file system: [full: paths of non-empty files, empty: paths of zero-byte files]
    cards,      \* CardImageCollection.cards of the collection being downloaded
    pc,         \* position of each card's download_image task
    workq,      \* the pool's work queue: submitted tasks no worker has taken yet
    worker,     \* the tasks the pool's threads are running (at most Workers)
    submitted,  \* how many of the cards pool.map has submitted in this invocation
    returned,   \* download_images has returned to its caller in this invocation
    run,        \* number of the current download_images invocation (0: none yet)
    queue,      \* CardImageCollection.queue
    bar,        \* download_bar.count
    fetched,    \* per card: calls of download_google_drive_file in this invocation
    outcome,    \* per card: how the fetch of this invocation ended ("none" if not called)
    puts,       \* per card: queue.put calls in this invocation
    updates,    \* per card: download_bar.update calls in this invocation
    doc,        \* the order document being parsed
    phase,      \* position of CardOrder.from_element
    details,    \* the Details built so far (NoDetails: none)
    fronts,     \* the front CardImageCollection built so far
    backs,      \* the back CardImageCollection built so far
    building,   \* cards of the collection CardImageCollection.from_element is building
    exitmsg,    \* the error the process exited with (NoError: none)
    lookups,    \* the calls of get_google_drive_file_name so far, in order
    warnings,   \* the warnings printed so far, in order
    target,     \* the face whose collection is being downloaded ("none" before)
    deck,       \* xml-generator: the deck-list entries no chunk has taken yet
    chunked,    \* xml-generator: the chunk taken last
    order       \* xml-generator: the order document made of that chunk (NoOrder: none yet)

vars == <<fs, cards, pc, workq, worker, submitted, returned, run, queue, bar, fetched,
          outcome, puts, updates, doc, phase, details, fronts, backs,
          building, exitmsg, lookups, warnings, target, deck, chunked, order>>

acqVars == <<cards, pc, workq, worker, submitted, returned, run, queue, bar, fetched,
             outcome, puts, updates>>

buildVars == <<doc, phase, details, fronts, backs, building, exitmsg, lookups, warnings>>

genVars == <<deck, chunked, order>>

----------------------------------------------------------------------------
(* Bounds of the model *)

\* cards in a collection that is downloaded on its own
MaxCards == 2
\* threads of the pool (ThreadPoolExecutor max_workers)
Workers == 2
\* download_images invocations on the same collection
MaxRuns == 2

----------------------------------------------------------------------------
(* Strings *)

None == <<"None">>

Str(s) == s # None

\* Python truthiness of an Optional[str]
Truthy(s) == s # None /\ s # <<>>

RECURSIVE LastIndexOf(_, _)
\* s.rfind(c), 1-based; 0 when c does not occur
LastIndexOf(s, c) ==
    IF s = <<>> THEN 0
    ELSE IF s[Len(s)] = c THEN Len(s)
    ELSE LastIndexOf(SubSeq(s, 1, Len(s) - 1), c)

\* s.rsplit(".", 1)
rsplit(s) ==
    LET k == LastIndexOf(s, ".")
    IN  IF k = 0 THEN <<s>>
        ELSE <<SubSeq(s, 1, k - 1), SubSeq(s, k + 1, Len(s))>>

\* os.path.basename
basename(p) == SubSeq(p, LastIndexOf(p, "/") + 1, Len(p))

\* characters sanitize_filename removes
IllegalChars == {"/"}

RECURSIVE sanitize(_)
sanitize(s) ==
    IF s = <<>> THEN <<>>
    ELSE IF Head(s) \in IllegalChars THEN sanitize(Tail(s))
    ELSE <<Head(s)>> \o sanitize(Tail(s))

\* src.io.image_directory(): the "cards" directory
image_directory == <<"c">>

\* os.path.join(directory, file name) for a relative file name
path_join(d, f) == d \o <<"/">> \o f

PNG == <<".", "p", "n", "g">>

----------------------------------------------------------------------------
(* File system *)

\* os.path.isfile(p) and os.path.getsize(p) > 0
isfile_nonempty(p, f) == p \in f.full

\* src.io.file_exists
file_exists(p, f) == p # None /\ p # <<>> /\ isfile_nonempty(p, f)

\* the file system after a non-empty file has been written at p
write_file(p, f) == [full |-> f.full \cup {p}, empty |-> f.empty \ {p}]

\* the file system after the file at p has been removed
delete_file(p, f) == [full |-> f.full \ {p}, empty |-> f.empty \ {p}]

----------------------------------------------------------------------------
(* CardImage *)

\* unnamed_file assuming the png name for an empty drive id as well
unnamed_file_always_png(drive_id) ==
    [name |-> drive_id \o PNG,
     file_path |-> path_join(image_directory, sanitize(drive_id \o PNG))]

\* lines 73-84: the name and path of an image whose name is None after the lookup
unnamed_file(drive_id) ==
    IF drive_id # <<>>
    THEN [name |-> drive_id \o PNG,
          file_path |-> path_join(image_directory, sanitize(drive_id \o PNG))]
    ELSE [name |-> None, file_path |-> None]

\* needs_lookup looking the name up whether or not one was supplied
needs_lookup_always(name) == TRUE

\* retrieve_card_name, line 54, and line 70: the name is looked up when none is given
needs_lookup(name) == ~Truthy(name)

\* CardImage.generate_file_path: the name and path it leaves, raised = an IndexError
\* left it, looked = it called get_google_drive_file_name (which answered `answer`)
CardImage_generate_file_path(drive_id, name, answer, f) ==
    IF file_exists(drive_id, f)
    THEN [name |-> basename(drive_id), file_path |-> drive_id,
          raised |-> FALSE, looked |-> FALSE]
    ELSE LET looked == needs_lookup(name)
             n == IF looked THEN answer ELSE name
         IN  IF n = None
             THEN [name |-> unnamed_file(drive_id).name,
                   file_path |-> unnamed_file(drive_id).file_path,
                   raised |-> FALSE, looked |-> looked]
             ELSE LET fp == path_join(image_directory, sanitize(n))
                      name_split == rsplit(n)
                  IN  IF ~isfile_nonempty(fp, f)
                      THEN IF Len(name_split) < 2
                           THEN [name |-> n, file_path |-> <<>>,
                                 raised |-> TRUE, looked |-> looked]
                           ELSE [name |-> n,
                                 file_path |-> path_join(image_directory,
                                     sanitize(name_split[1] \o <<" ", "(">> \o drive_id
                                              \o <<")", ".">> \o name_split[2])),
                                 raised |-> FALSE, looked |-> looked]
                      ELSE [name |-> n, file_path |-> fp,
                            raised |-> FALSE, looked |-> looked]

\* CardImage.validate leaving errored as it finds it
CardImage_validate_keeps(errored, name, file_path) == errored

\* CardImage.validate
CardImage_validate(errored, name, file_path) ==
    errored \/ name = None \/ file_path = None

\* CardImage(drive_id, slots, name): attrs __init__ followed by __attrs_post_init__
CardImage(drive_id, slots, name, answer, f) ==
    LET g == CardImage_generate_file_path(drive_id, name, answer, f)
    IN  [drive_id |-> drive_id, slots |-> slots, name |-> g.name,
         file_path |-> g.file_path, downloaded |-> FALSE,
         errored |-> CardImage_validate(FALSE, g.name, g.file_path)]

----------------------------------------------------------------------------
(* Order document: the text of a numeric tag is absent, an integer or not a number *)

NoText == [kind |-> "none", val |-> 0]

IntText(n) == [kind |-> "int", val |-> n]

JunkText == [kind |-> "junk", val |-> 0]

RECURSIVE lstrip(_)
lstrip(s) ==
    IF s # <<>> /\ Head(s) \in {" ", "\""} THEN lstrip(Tail(s)) ELSE s

RECURSIVE rstrip(_)
rstrip(s) ==
    IF s # <<>> /\ s[Len(s)] \in {" ", "\""} THEN rstrip(SubSeq(s, 1, Len(s) - 1)) ELSE s

\* str.strip(' "')
strip(s) == rstrip(lstrip(s))

----------------------------------------------------------------------------
(* Errors and exits *)

NoError == [type |-> "none", rule |-> "none", face |-> "none", value |-> <<>>]

ValidationException(rule, face, value) ==
    [type |-> "ValidationException", rule |-> rule, face |-> face, value |-> value]

\* int() of a text that is no number
ValueError == [type |-> "ValueError", rule |-> "int", face |-> "none", value |-> <<>>]

\* name_split[1] of a name without a "."
IndexError == [type |-> "IndexError", rule |-> "name_split", face |-> "none", value |-> <<>>]

----------------------------------------------------------------------------
(* Details *)

\* constants.Cardstocks.S30 and constants.Cardstocks.P10, compared by value
S30 == <<"S", "3", "0">>

P10 == <<"P", "1", "0">>

Cardstocks == {S30, P10}

\* constants.BRACKETS
BRACKETS == {18, 36, 55, 72, 90, 108, 126, 144, 162, 180, 198, 216, 234, 396, 504, 612}

TRUE_TEXT == <<"t", "r", "u", "e">>

NoDetails == [quantity |-> 0, bracket |-> 0, stock |-> None, foil |-> FALSE]

\* Details.validate with the quantity test admitting 0
Details_validate_admits_zero(d) ==
    IF ~(0 <= d.quantity /\ d.quantity <= d.bracket)
    THEN ValidationException("quantity", "none", <<d.quantity>>)
    ELSE IF d.bracket \notin BRACKETS
    THEN ValidationException("bracket", "none", <<d.bracket>>)
    ELSE IF d.stock \notin Cardstocks
    THEN ValidationException("stock", "none", d.stock)
    ELSE IF d.stock = P10 /\ d.foil = TRUE
    THEN ValidationException("foil", "none", d.stock)
    ELSE NoError

\* Details.validate raising nothing
Details_validate_none(d) == NoError

\* Details.validate: the exception it raises (NoError: none)
Details_validate(d) ==
    IF ~(0 < d.quantity /\ d.quantity <= d.bracket)
    THEN ValidationException("quantity", "none", <<d.quantity>>)
    ELSE IF d.bracket \notin BRACKETS
    THEN ValidationException("bracket", "none", <<d.bracket>>)
    ELSE IF d.stock \notin Cardstocks
    THEN ValidationException("stock", "none", d.stock)
    ELSE IF d.stock = P10 /\ d.foil = TRUE
    THEN ValidationException("foil", "none", d.stock)
    ELSE NoError

\* Details.from_element, lines 270-277: the values handed to the constructor
Details_parse(e) ==
    [quantity |-> IF e.quantity.kind = "none" THEN 0 ELSE e.quantity.val,
     bracket |-> IF e.bracket.kind = "none" THEN 0 ELSE e.bracket.val,
     stock |-> IF Truthy(e.stock) THEN e.stock ELSE S30,
     foil |-> (e.foil = TRUE_TEXT)]

\* int(quantity_text) or int(bracket_text) raises
Details_unparsable(e) == e.quantity.kind = "junk" \/ e.bracket.kind = "junk"

----------------------------------------------------------------------------
(* CardImageCollection and CardOrder *)

NoCollection == [cards |-> <<>>, num_slots |-> 0]

Range(q) == {q[k] : k \in 1..Len(q)}

RECURSIVE SetToSeq(_)
\* list(set of ints): the elements in ascending order
SetToSeq(S) ==
    IF S = {} THEN <<>>
    ELSE LET m == CHOOSE x \in S : \A y \in S : x <= y
         IN  <<m>> \o SetToSeq(S \ {m})

\* CardImage.from_element, lines 113-121: the drive id handed to the constructor
card_drive_id(card) == IF card.id = None THEN <<>> ELSE strip(card.id)

\* all_slots numbering the slots from 1
all_slots_one_based(num_slots) == 1..num_slots

\* CardImageCollection.all_slots
all_slots(num_slots) == 0..(num_slots - 1)

\* CardImageCollection.slots
slots_of(cs) == UNION {Range(cs[k].slots) : k \in 1..Len(cs)}

\* CardImageCollection.validate without its test of num_slots
CardImageCollection_validate_ignores_slots(cs, num_slots, face) ==
    IF cs = <<>>
    THEN ValidationException("no images", face, <<>>)
    ELSE NoError

\* CardImageCollection.validate: the exception it raises (NoError: none)
CardImageCollection_validate(cs, num_slots, face) ==
    IF num_slots = 0 \/ cs = <<>>
    THEN ValidationException("no images", face, <<>>)
    ELSE NoError

\* CardImageCollection.validate, lines 183-188: the warnings it prints
CardImageCollection_warning(cs, num_slots, face) ==
    LET slots_missing == all_slots(num_slots) \ slots_of(cs)
    IN  IF slots_missing # {}
        THEN <<[face |-> face, missing |-> SetToSeq(slots_missing)]>>
        ELSE <<>>

\* CardImageCollection.from_element, line 203: a fill image is wanted
wants_fill(fill_image_id) == Truthy(fill_image_id)

\* force_single_back leaving a single back's slots as they were declared
force_single_back_never(cs) == cs

\* force_single_back setting the slots of every back image
force_single_back_all(cs) == [k \in 1..Len(cs) |-> [cs[k] EXCEPT !.slots = <<0>>]]

\* CardOrder.from_element, lines 345-346
force_single_back(cs) ==
    IF Len(cs) = 1 THEN [cs EXCEPT ![1].slots = <<0>>] ELSE cs

\* `not image.file_path`
no_file_path(image) == ~Truthy(image.file_path)

\* the first image of fronts, then backs, that CardOrder.validate rejects
first_rejected(cs) == cs[CHOOSE k \in 1..Len(cs) :
                            no_file_path(cs[k]) /\ \A j \in 1..(k - 1) : ~no_file_path(cs[j])]

order_error(image, face) ==
    ValidationException("file_path", face,
                        IF image.slots # <<>> THEN image.slots ELSE image.drive_id)

\* CardOrder.validate looking at the fronts only
CardOrder_validate_fronts_only(fcards, bcards) ==
    IF \E k \in 1..Len(fcards) : no_file_path(fcards[k])
    THEN order_error(first_rejected(fcards), "front")
    ELSE NoError

\* CardOrder.validate: the exception it raises (NoError: none)
CardOrder_validate(fcards, bcards) ==
    IF \E k \in 1..Len(fcards) : no_file_path(fcards[k])
    THEN order_error(first_rejected(fcards), "front")
    ELSE IF \E k \in 1..Len(bcards) : no_file_path(bcards[k])
    THEN order_error(first_rejected(bcards), "back")
    ELSE NoError

----------------------------------------------------------------------------
(* Acquisition: CardImageCollection.download_images on a ThreadPoolExecutor *)

N == Len(cards)

Tasks == 1..N

\* outcomes of download_google_drive_file: it returns True, returns False or raises
FetchResults == {"ok", "fail", "raise"}

\* ShouldFetch without its test of errored
ShouldFetch_ignores_errored(exists, errored, file_path) ==
    ~exists /\ file_path # None

\* line 135: the condition under which download_image calls the fetch primitive
ShouldFetch(exists, errored, file_path) ==
    ~exists /\ ~errored /\ file_path # None

\* line 136: self.errored = not download_google_drive_file(...)
ErroredAfterFetch(result) == ~(result = "ok")

\* MarkDownloaded without the check that the file exists
MarkDownloaded_unverified(exists, errored) == ~errored

\* line 140: the condition under which download_image sets downloaded
MarkDownloaded(exists, errored) == exists /\ ~errored

\* AfterRaise with the exception leaving the task: neither handler nor finally runs
AfterRaise_unhandled == "done"

\* AfterRaise with the except clause leaving out the put of the finally clause
AfterRaise_skips_put == "update"

\* lines 147-155: where a task goes when the fetch raises: the except clause logs,
\* then the finally clause runs
AfterRaise == "put"

\* PoolMapDone of a map that hands back its iterator after the first submission
PoolMapDone_lazy == submitted >= 1 \/ N = 0

\* line 230: pool.map has submitted one task per card when it returns its iterator
PoolMapDone == submitted = N

\* queue_put with the put made in the except clause and again in the finally clause
queue_put_twice(q, i) == Append(Append(q, i), i)

\* line 155: queue.put(self)
queue_put(q, i) == Append(q, i)

AllDone == \A i \in Tasks : pc[i] = "done"

\* the caller invokes download_images(pool, download_bar, config) on the collection;
\* a later invocation starts once the one before has returned and its tasks are over,
\* and the caller has drained the completion queue by then
download_images_call ==
    /\ target # "none"
    /\ run < MaxRuns
    /\ run = 0 \/ (returned /\ AllDone)
    /\ queue' = <<>>
    /\ run' = run + 1
    /\ submitted' = 0
    /\ returned' = FALSE
    /\ pc' = [i \in Tasks |-> "idle"]
    /\ fetched' = [i \in Tasks |-> 0]
    /\ outcome' = [i \in Tasks |-> "none"]
    /\ puts' = [i \in Tasks |-> 0]
    /\ updates' = [i \in Tasks |-> 0]
    /\ UNCHANGED <<fs, cards, workq, worker, bar, target>>
    /\ UNCHANGED buildVars
    /\ UNCHANGED genVars

\* pool.map submits the next card's task: Executor.map builds its list of futures
pool_submit ==
    /\ run > 0
    /\ ~returned
    /\ submitted < N
    /\ submitted' = submitted + 1
    /\ workq' = Append(workq, submitted + 1)
    /\ pc' = [pc EXCEPT ![submitted + 1] = "queued"]
    /\ UNCHANGED <<fs, cards, worker, returned, run, queue, bar, fetched,
                   outcome, puts, updates, target>>
    /\ UNCHANGED buildVars
    /\ UNCHANGED genVars

\* download_images returns (its pool.map iterator is dropped, nothing is awaited)
download_images_return ==
    /\ run > 0
    /\ ~returned
    /\ PoolMapDone
    /\ returned' = TRUE
    /\ UNCHANGED <<fs, cards, pc, workq, worker, submitted, run, queue, bar, fetched,
                   outcome, puts, updates, target>>
    /\ UNCHANGED buildVars
    /\ UNCHANGED genVars

\* a pool thread that runs no task takes the oldest submitted task
worker_take ==
    /\ Cardinality(worker) < Workers
    /\ workq # <<>>
    /\ worker' = worker \cup {Head(workq)}
    /\ workq' = Tail(workq)
    /\ pc' = [pc EXCEPT ![Head(workq)] = "check"]
    /\ UNCHANGED <<fs, cards, submitted, returned, run, queue, bar, fetched,
                   outcome, puts, updates, target>>
    /\ UNCHANGED buildVars
    /\ UNCHANGED genVars

\* download_image, line 135: the skip check, and the call of the fetch primitive
download_image_check(i) ==
    /\ pc[i] = "check"
    /\ LET exists == file_exists(cards[i].file_path, fs)
           go == ShouldFetch(exists, cards[i].errored, cards[i].file_path)
       IN  /\ pc' = [pc EXCEPT ![i] = IF go THEN "fetching" ELSE "verify"]
           /\ fetched' = [fetched EXCEPT ![i] = IF go THEN @ + 1 ELSE @]
    /\ UNCHANGED <<fs, cards, workq, worker, submitted, returned, run, queue, bar,
                   outcome, puts, updates, target>>
    /\ UNCHANGED buildVars
    /\ UNCHANGED genVars

\* download_image, lines 136-138 and 147: download_google_drive_file ends: it has
\* written the target file or not, and returns True, returns False or raises
download_image_fetch_return(i, result, wrote) ==
    /\ pc[i] = "fetching"
    /\ fs' = IF wrote THEN write_file(cards[i].file_path, fs) ELSE fs
    /\ outcome' = [outcome EXCEPT ![i] = result]
    /\ IF result = "raise"
       THEN /\ pc' = [pc EXCEPT ![i] = AfterRaise]
            /\ UNCHANGED cards
       ELSE /\ pc' = [pc EXCEPT ![i] = "verify"]
            /\ cards' = [cards EXCEPT ![i].errored = ErroredAfterFetch(result)]
    /\ UNCHANGED <<workq, worker, submitted, returned, run, queue, bar, fetched,
                   puts, updates, target>>
    /\ UNCHANGED buildVars
    /\ UNCHANGED genVars

\* download_image, lines 140-146
download_image_verify(i) ==
    /\ pc[i] = "verify"
    /\ cards' = IF MarkDownloaded(file_exists(cards[i].file_path, fs), cards[i].errored)
                THEN [cards EXCEPT ![i].downloaded = TRUE]
                ELSE cards
    /\ pc' = [pc EXCEPT ![i] = "put"]
    /\ UNCHANGED <<fs, workq, worker, submitted, returned, run, queue, bar, fetched,
                   outcome, puts, updates, target>>
    /\ UNCHANGED buildVars
    /\ UNCHANGED genVars

\* download_image, line 155: queue.put(self)
download_image_put(i) ==
    /\ pc[i] = "put"
    /\ queue' = queue_put(queue, i)
    /\ puts' = [puts EXCEPT ![i] = @ + 1]
    /\ pc' = [pc EXCEPT ![i] = "update"]
    /\ UNCHANGED <<fs, cards, workq, worker, submitted, returned, run, bar, fetched,
                   outcome, updates, target>>
    /\ UNCHANGED buildVars
    /\ UNCHANGED genVars

\* download_image, line 156: download_bar.update(); the task ends and its thread is idle
download_image_update(i) ==
    /\ pc[i] = "update"
    /\ bar' = bar + 1
    /\ updates' = [updates EXCEPT ![i] = @ + 1]
    /\ pc' = [pc EXCEPT ![i] = "done"]
    /\ worker' = worker \ {i}
    /\ UNCHANGED <<fs, cards, workq, submitted, returned, run, queue, fetched,
                   outcome, puts, target>>
    /\ UNCHANGED buildVars
    /\ UNCHANGED genVars

AcqNext ==
    \/ download_images_call
    \/ pool_submit
    \/ download_images_return
    \/ worker_take
    \/ \E i \in Tasks : download_image_check(i)
    \/ \E i \in Tasks, result \in FetchResults, wrote \in BOOLEAN :
           download_image_fetch_return(i, result, wrote)
    \/ \E i \in Tasks : download_image_verify(i)
    \/ \E i \in Tasks : download_image_put(i)
    \/ \E i \in Tasks : download_image_update(i)

----------------------------------------------------------------------------
(* A collection downloaded on its own: cards as CardImage constructs them *)

IdX == <<"x">>

IdY == <<"y">>

NameNP == <<"n", ".", "p">>

\* what get_google_drive_file_name may answer
LookupAnswers == {None, NameNP}

\* card entries of the collections downloaded on their own: drive id, name, and what
\* get_google_drive_file_name answers when the entry's construction calls it
AcqEntries ==
    { [drive_id |-> IdX, name |-> NameNP, answer |-> None],
      [drive_id |-> IdY, name |-> None, answer |-> None],
      [drive_id |-> <<>>, name |-> None, answer |-> None] }

\* no order document is read when a collection is downloaded on its own
NoDoc ==
    [details |-> [quantity |-> NoText, bracket |-> NoText, stock |-> None, foil |-> None],
     fronts |-> <<>>, backs |-> <<>>, cardback |-> None]

\* the cache directory's contents before the collection is built
AcqFiles ==
    { [full |-> {}, empty |-> {}],
      [full |-> {path_join(image_directory, NameNP)}, empty |-> {}] }

\* no order document has been made by xml-generator
NoOrder == [error |-> "none", cardback |-> <<>>, fronts |-> <<>>,
            details |-> [bracket |-> NoText, foil |-> "", quantity |-> NoText, stock |-> ""]]

\* xml-generator is not run
GenIdle == deck = <<>> /\ chunked = <<>> /\ order = NoOrder

AcqInitVars(n) ==
    /\ pc = [i \in 1..n |-> "idle"]
    /\ workq = <<>>
    /\ worker = {}
    /\ submitted = 0
    /\ returned = FALSE
    /\ run = 0
    /\ queue = <<>>
    /\ bar = 0
    /\ fetched = [i \in 1..n |-> 0]
    /\ outcome = [i \in 1..n |-> "none"]
    /\ puts = [i \in 1..n |-> 0]
    /\ updates = [i \in 1..n |-> 0]

Init ==
    /\ fs \in AcqFiles
    /\ \E n \in 1..MaxCards :
         /\ \E e \in [1..n -> AcqEntries] :
              cards = [i \in 1..n |->
                          CardImage(e[i].drive_id, <<i - 1>>, e[i].name, e[i].answer, fs)]
         /\ AcqInitVars(n)
         /\ GenIdle
    /\ doc = NoDoc
    /\ phase = "built"
    /\ details = NoDetails
    /\ fronts = NoCollection
    /\ backs = NoCollection
    /\ building = <<>>
    /\ exitmsg = NoError
    /\ lookups = <<>>
    /\ warnings = <<>>
    /\ target = "coll"

Next == AcqNext

Spec == Init /\ [][Next]_vars

----------------------------------------------------------------------------
(* Successive invocations on one collection, the target files of its cards being *)
(* created or deleted between an invocation and the next                          *)

\* between two invocations the target file of a card is created or deleted
files_change ==
    /\ run > 0 /\ run < MaxRuns
    /\ returned /\ AllDone
    /\ \E i \in Tasks, created \in BOOLEAN :
         /\ cards[i].file_path # None
         /\ fs' = IF created THEN write_file(cards[i].file_path, fs)
                  ELSE delete_file(cards[i].file_path, fs)
         /\ fs' # fs
    /\ UNCHANGED <<cards, pc, workq, worker, submitted, returned, run, queue, bar,
                   fetched, outcome, puts, updates, target>>
    /\ UNCHANGED buildVars
    /\ UNCHANGED genVars

NextFiles == AcqNext \/ files_change

SpecFiles == Init /\ [][NextFiles]_vars

----------------------------------------------------------------------------
(* One invocation of download_images whose steps are scheduled fairly: the calling *)
(* thread goes on and every pool thread goes on with the task it runs; nothing is  *)
(* assumed of download_google_drive_file, which may never end. The collection may  *)
(* hold one card more than the pool has threads; its second card has no path, the  *)
(* others are named n.p, and all but the first have the same drive id, hence the   *)
(* same target file.                                                               *)

LiveCards == MaxCards + 1

LiveEntry(i) ==
    IF i = 2 THEN [drive_id |-> <<>>, name |-> None, answer |-> None]
    ELSE [drive_id |-> IF i = 1 THEN IdX ELSE IdY, name |-> NameNP, answer |-> None]

InitLive ==
    /\ fs \in AcqFiles
    /\ \E n \in 1..LiveCards :
         /\ cards = [i \in 1..n |->
                        CardImage(LiveEntry(i).drive_id, <<i - 1>>, LiveEntry(i).name,
                                  LiveEntry(i).answer, fs)]
         /\ AcqInitVars(n)
         /\ GenIdle
    /\ doc = NoDoc
    /\ phase = "built"
    /\ details = NoDetails
    /\ fronts = NoCollection
    /\ backs = NoCollection
    /\ building = <<>>
    /\ exitmsg = NoError
    /\ lookups = <<>>
    /\ warnings = <<>>
    /\ target = "coll"

NextLive == AcqNext /\ run' = 1

Fairness ==
    /\ WF_vars(pool_submit)
    /\ WF_vars(download_images_return)
    /\ WF_vars(worker_take)
    /\ \A i \in 1..LiveCards :
         /\ WF_vars(i \in Tasks /\ download_image_check(i))
         /\ WF_vars(i \in Tasks /\ download_image_verify(i))
         /\ WF_vars(i \in Tasks /\ download_image_put(i))
         /\ WF_vars(i \in Tasks /\ download_image_update(i))

SpecLive == InitLive /\ [][NextLive]_vars /\ Fairness

----------------------------------------------------------------------------
(* Order construction: CardOrder.from_element, step by step *)

FacePhase(face) == IF face = "front" THEN "fronts" ELSE "backs"

DocCards(face) == IF face = "front" THEN doc.fronts ELSE doc.backs

\* lines 330-342: the fill_image_id CardOrder.from_element passes for a face
fill_image_id(face) == IF face = "back" THEN doc.cardback ELSE None

\* line 326: Details.from_element and the validation of __attrs_post_init__
Details_from_element ==
    /\ phase = "details"
    /\ IF Details_unparsable(doc.details)
       THEN /\ phase' = "crash"
            /\ exitmsg' = ValueError
            /\ UNCHANGED details
       ELSE LET d == Details_parse(doc.details)
                e == Details_validate(d)
            IN  IF e.type # "none"
                THEN /\ phase' = "exit"
                     /\ exitmsg' = e
                     /\ UNCHANGED details
                ELSE /\ phase' = "fronts"
                     /\ details' = d
                     /\ UNCHANGED exitmsg
    /\ UNCHANGED <<doc, fronts, backs, building, lookups, warnings, fs, target>>
    /\ UNCHANGED acqVars
    /\ UNCHANGED genVars

\* lines 200-201: CardImage.from_element for the next card element of a face
CardImage_from_element(face) ==
    /\ phase = FacePhase(face)
    /\ Len(building) < Len(DocCards(face))
    /\ \E answer \in LookupAnswers :
         LET k == Len(building) + 1
             card == DocCards(face)[k]
             id == card_drive_id(card)
             g == CardImage_generate_file_path(id, card.name, answer, fs)
         IN  /\ lookups' = IF g.looked
                           THEN Append(lookups, [face |-> face, index |-> k,
                                                 drive_id |-> id, answer |-> answer])
                           ELSE lookups
             /\ IF g.raised
                THEN /\ phase' = "crash"
                     /\ exitmsg' = IndexError
                     /\ UNCHANGED building
                ELSE /\ building' = Append(building,
                                           CardImage(id, card.slots, card.name, answer, fs))
                     /\ UNCHANGED <<phase, exitmsg>>
    /\ UNCHANGED <<doc, details, fronts, backs, warnings, fs, target>>
    /\ UNCHANGED acqVars
    /\ UNCHANGED genVars

\* lines 202-217: the collection is made of the cards built, the fill image is
\* appended when one is wanted, and the collection is validated
CardImageCollection_from_element(face) ==
    /\ phase = FacePhase(face)
    /\ Len(building) = Len(DocCards(face))
    /\ \E answer \in LookupAnswers :
         LET num_slots == details.quantity
             fid == fill_image_id(face)
             missing_slots == all_slots(num_slots) \ slots_of(building)
             fill == wants_fill(fid) /\ missing_slots # {}
             id == strip(fid)
             g == CardImage_generate_file_path(id, <<>>, answer, fs)
             cs == IF fill
                   THEN Append(building,
                               CardImage(id, SetToSeq(missing_slots), <<>>, answer, fs))
                   ELSE building
             e == CardImageCollection_validate(cs, num_slots, face)
         IN  /\ lookups' = IF fill /\ g.looked
                           THEN Append(lookups, [face |-> face, index |-> Len(cs),
                                                 drive_id |-> id, answer |-> answer])
                           ELSE lookups
             /\ IF fill /\ g.raised
                THEN /\ phase' = "crash"
                     /\ exitmsg' = IndexError
                     /\ UNCHANGED <<fronts, backs, building, warnings>>
                ELSE IF e.type # "none"
                THEN /\ phase' = "exit"
                     /\ exitmsg' = e
                     /\ UNCHANGED <<fronts, backs, building, warnings>>
                ELSE /\ phase' = IF face = "front" THEN "backs" ELSE "order"
                     /\ fronts' = IF face = "front"
                                  THEN [cards |-> cs, num_slots |-> num_slots]
                                  ELSE fronts
                     /\ backs' = IF face = "back"
                                 THEN [cards |-> cs, num_slots |-> num_slots]
                                 ELSE backs
                     /\ building' = <<>>
                     /\ warnings' = warnings \o CardImageCollection_warning(cs, num_slots, face)
                     /\ UNCHANGED exitmsg
    /\ UNCHANGED <<doc, details, fs, target>>
    /\ UNCHANGED acqVars
    /\ UNCHANGED genVars

\* lines 343-348 and 316-321: the single back's slots are forced, the CardOrder is
\* constructed and validated
CardOrder_from_element ==
    /\ phase = "order"
    /\ LET bcards == force_single_back(backs.cards)
           e == CardOrder_validate(fronts.cards, bcards)
       IN  /\ backs' = [backs EXCEPT !.cards = bcards]
           /\ phase' = IF e.type # "none" THEN "exit" ELSE "built"
           /\ exitmsg' = e
    /\ UNCHANGED <<doc, details, fronts, building, lookups, warnings, fs, target>>
    /\ UNCHANGED acqVars
    /\ UNCHANGED genVars

\* the caller turns to the download of one face of the order it has constructed
order_download(face) ==
    /\ phase = "built"
    /\ target = "none"
    /\ target' = face
    /\ LET cs == IF face = "front" THEN fronts.cards ELSE backs.cards
           n == Len(cs)
       IN  /\ cards' = cs
           /\ pc' = [i \in 1..n |-> "idle"]
           /\ fetched' = [i \in 1..n |-> 0]
           /\ outcome' = [i \in 1..n |-> "none"]
           /\ puts' = [i \in 1..n |-> 0]
           /\ updates' = [i \in 1..n |-> 0]
    /\ UNCHANGED <<workq, worker, submitted, returned, run, queue, bar, fs>>
    /\ UNCHANGED buildVars
    /\ UNCHANGED genVars

BuildNext ==
    \/ Details_from_element
    \/ \E face \in {"front", "back"} : CardImage_from_element(face)
    \/ \E face \in {"front", "back"} : CardImageCollection_from_element(face)
    \/ CardOrder_from_element
    \/ \E face \in {"front", "back"} : order_download(face)

----------------------------------------------------------------------------
(* Orders constructed from a document, and the first download of one face *)

\* card elements of the fronts of an order document
MaxFronts == 2
\* card elements of the backs of an order document
MaxBacks == 1

\* the lists of at most n elements of q, taken in the order they have in q
SeqsUpTo(q, n) ==
    { [k \in 1..Cardinality(S) |-> q[SetToSeq(S)[k]]] :
          S \in {T \in SUBSET (1..Len(q)) : Cardinality(T) <= n} }

FrontEntries ==
    << [id |-> IdX, slots |-> <<0>>, name |-> NameNP],
       [id |-> IdY, slots |-> <<1, 2>>, name |-> None],
       [id |-> None, slots |-> <<1>>, name |-> None],
       [id |-> IdX, slots |-> <<0, 5>>, name |-> NameNP] >>

BackEntries ==
    << [id |-> IdY, slots |-> <<0, 1>>, name |-> NameNP],
       [id |-> None, slots |-> <<0, 1>>, name |-> None] >>

OrderDetails ==
    { [quantity |-> IntText(q), bracket |-> IntText(18), stock |-> None, foil |-> None] :
          q \in {0, 2, 3} }

OrderDocs ==
    { [details |-> d, fronts |-> f, backs |-> b, cardback |-> c] :
          d \in OrderDetails, f \in SeqsUpTo(FrontEntries, MaxFronts),
          b \in SeqsUpTo(BackEntries, MaxBacks), c \in {None, <<" ", "x">>} }

BuildInitVars ==
    /\ phase = "details"
    /\ details = NoDetails
    /\ fronts = NoCollection
    /\ backs = NoCollection
    /\ building = <<>>
    /\ exitmsg = NoError
    /\ lookups = <<>>
    /\ warnings = <<>>
    /\ target = "none"
    /\ cards = <<>>
    /\ AcqInitVars(0)
    /\ GenIdle

\* the cache directory's contents before an order is constructed: the file named n.p
OrderFiles == { [full |-> {path_join(image_directory, NameNP)}, empty |-> {}] }

InitOrder ==
    /\ doc \in OrderDocs
    /\ fs \in OrderFiles
    /\ BuildInitVars

\* the steps of the first download_images invocation
FirstInvocation == AcqNext /\ run' = 1

NextOrder == BuildNext \/ FirstInvocation

SpecOrder == InitOrder /\ [][NextOrder]_vars

----------------------------------------------------------------------------
(* Details constructed from the details element alone *)

DetailsQuantities ==
    {NoText, JunkText} \cup {IntText(q) : q \in {-1, 0, 1, 18, 19, 36, 37, 612, 613}}

DetailsBrackets ==
    {NoText, JunkText} \cup {IntText(b) : b \in {0, 17, 18, 36, 612, 613}}

DetailsStocks == {None, S30, P10, <<"X">>}

DetailsFoils == {None, TRUE_TEXT, <<"T", "r", "u", "e">>, <<"f">>}

InitDetails ==
    /\ doc \in { [NoDoc EXCEPT !.details =
                     [quantity |-> q, bracket |-> b, stock |-> st, foil |-> fo]] :
                 q \in DetailsQuantities, b \in DetailsBrackets,
                 st \in DetailsStocks, fo \in DetailsFoils }
    /\ fs = [full |-> {}, empty |-> {}]
    /\ BuildInitVars

NextDetails == Details_from_element

SpecDetails == InitDetails /\ [][NextDetails]_vars

----------------------------------------------------------------------------
(* Collections constructed by CardImageCollection.from_element called on its own, *)
(* for the fronts and then the backs or for the backs alone, with the num_slots   *)
(* the document's quantity gives, unvalidated                                      *)

InitCollection ==
    /\ doc \in OrderDocs
    /\ fs \in AcqFiles
    /\ phase \in {"fronts", "backs"}
    /\ details = Details_parse(doc.details)
    /\ fronts = NoCollection
    /\ backs = NoCollection
    /\ building = <<>>
    /\ exitmsg = NoError
    /\ lookups = <<>>
    /\ warnings = <<>>
    /\ target = "none"
    /\ cards = <<>>
    /\ AcqInitVars(0)
    /\ GenIdle

NextCollection ==
    \/ \E face \in {"front", "back"} : CardImage_from_element(face)
    \/ \E face \in {"front", "back"} : CardImageCollection_from_element(face)

SpecCollection == InitCollection /\ [][NextCollection]_vars

----------------------------------------------------------------------------
(* Path resolution: CardImage.from_element executed twice on the same card element *)
(* with the same cache directory, the name lookup answering each time as it will   *)

NameN == <<"n">>

\* the path of the cache file named n.p, which as a drive id is a local file's path
CachedNP == path_join(image_directory, NameNP)

PathIds == {None, IdY, <<" ", "y", "\"">>, CachedNP}

PathNames == {None, <<>>, NameNP, NameN}

PathFiles ==
    { [full |-> {}, empty |-> {}],
      [full |-> {CachedNP}, empty |-> {}],
      [full |-> {}, empty |-> {CachedNP}],
      [full |-> {path_join(image_directory, NameN)}, empty |-> {}] }

InitPath ==
    /\ \E id \in PathIds, name \in PathNames :
         doc = [NoDoc EXCEPT !.fronts = << [id |-> id, slots |-> <<0>>, name |-> name],
                                          [id |-> id, slots |-> <<0>>, name |-> name] >>]
    /\ fs \in PathFiles
    /\ phase = "fronts"
    /\ details = [NoDetails EXCEPT !.quantity = 1, !.bracket = 18, !.stock = S30]
    /\ fronts = NoCollection
    /\ backs = NoCollection
    /\ building = <<>>
    /\ exitmsg = NoError
    /\ lookups = <<>>
    /\ warnings = <<>>
    /\ target = "none"
    /\ cards = <<>>
    /\ AcqInitVars(0)
    /\ GenIdle

NextPath == CardImage_from_element("front")

SpecPath == InitPath /\ [][NextPath]_vars

----------------------------------------------------------------------------
(* utils/xml-generator.py: the entries of the deck lists are cut into chunks, and *)
(* an order document is made of the run lengths of each chunk                     *)

\* lines of the deck lists
MaxLines == 2

\* chunk(612, ...) of main
ChunkSize == 612

make_order_brackets ==
    <<18, 36, 55, 72, 90, 108, 126, 144, 162, 180, 198, 216, 234, 396, 504, 612>>

\* the counts and card names of deck-list lines
GenCounts == {0, 1, 18, 19, 612}

GenNames == {"a", "b"}

RECURSIVE Expand(_)
\* main, lines 235-236: each line "count name" stands for count entries of the name
Expand(ls) ==
    IF ls = <<>> THEN <<>>
    ELSE [i \in 1..Head(ls).count |-> Head(ls).name] \o Expand(Tail(ls))

\* chunk(n, iterable): the entries of the next chunk, at most n
chunk(n, s) == SubSeq(s, 1, IF Len(s) < n THEN Len(s) ELSE n)

\* the entries left once chunk(n, iterable) was taken
after_chunk(n, s) == SubSeq(s, (IF Len(s) < n THEN Len(s) ELSE n) + 1, Len(s))

RECURSIVE run_lengths(_)
\* run_lengths: the (quantity, reference) pairs of the runs of equal entries
run_lengths(s) ==
    IF s = <<>> THEN <<>>
    ELSE LET probe == CHOOSE j \in 2..(Len(s) + 1) :
                         /\ (j = Len(s) + 1 \/ s[j] # s[1])
                         /\ \A i \in 2..(j - 1) : s[i] = s[1]
         IN  <<[quantity |-> probe - 1, reference |-> s[1]]>>
                 \o run_lengths(SubSeq(s, probe, Len(s)))

\* bisect.bisect_right(a, x) of a sorted list, as a 0-based index
bisect_right(a, x) == Cardinality({k \in 1..Len(a) : a[k] <= x})

\* bisect.bisect_left(a, x) of a sorted list, as a 0-based index
bisect_left(a, x) == Cardinality({k \in 1..Len(a) : a[k] < x})

\* image_path_template.format(name)
image_path(name) == <<"image-cache", "/", name, ".png">>

RECURSIVE make_cards(_, _)
\* make_order, lines 155-172: the card elements of the entries, the first slot being
\* index
make_cards(entries, index) ==
    IF entries = <<>> THEN <<>>
    ELSE <<[id |-> image_path(Head(entries).reference),
            slots |-> [i \in 1..Head(entries).quantity |-> index + i - 1]]>>
             \o make_cards(Tail(entries), index + Head(entries).quantity)

RECURSIVE total(_)
\* make_order: index after the loop of lines 155-172
total(entries) ==
    IF entries = <<>> THEN 0 ELSE Head(entries).quantity + total(Tail(entries))

\* make_order: the order document of the entries; the images are taken to be in the
\* image cache
make_order(entries) ==
    LET index == total(entries)
        at == bisect_left(make_order_brackets, index)
    IN  IF at >= Len(make_order_brackets)
        THEN [NoOrder EXCEPT !.error = "IndexError",
                             !.cardback = image_path("cardback"),
                             !.fronts = make_cards(entries, 0)]
        ELSE [error |-> "none",
              cardback |-> image_path("cardback"),
              fronts |-> make_cards(entries, 0),
              details |-> [bracket |-> IntText(make_order_brackets[at + 1]),
                           foil |-> "false",
                           quantity |-> IntText(index),
                           stock |-> "(S30) Standard Smooth"]]

\* main, line 234: chunk yields the next chunk of the entries
chunk_next ==
    /\ deck # <<>>
    /\ chunked = <<>> \/ (order # NoOrder /\ order.error = "none")
    /\ chunked' = chunk(ChunkSize, deck)
    /\ deck' = after_chunk(ChunkSize, deck)
    /\ order' = NoOrder
    /\ UNCHANGED fs
    /\ UNCHANGED acqVars
    /\ UNCHANGED buildVars
    /\ UNCHANGED target

\* main, lines 232-233: make_order of the run lengths of the chunk
make_order_call ==
    /\ chunked # <<>>
    /\ order = NoOrder
    /\ order' = make_order(run_lengths(chunked))
    /\ UNCHANGED <<deck, chunked, fs>>
    /\ UNCHANGED acqVars
    /\ UNCHANGED buildVars
    /\ UNCHANGED target

InitGen ==
    /\ \E n \in 0..MaxLines :
         \E ls \in [1..n -> [count : GenCounts, name : GenNames]] : deck = Expand(ls)
    /\ chunked = <<>>
    /\ order = NoOrder
    /\ fs = [full |-> {}, empty |-> {}]
    /\ doc = NoDoc
    /\ phase = "details"
    /\ details = NoDetails
    /\ fronts = NoCollection
    /\ backs = NoCollection
    /\ building = <<>>
    /\ exitmsg = NoError
    /\ lookups = <<>>
    /\ warnings = <<>>
    /\ target = "none"
    /\ cards = <<>>
    /\ pc = <<>>
    /\ workq = <<>>
    /\ worker = {}
    /\ submitted = 0
    /\ returned = FALSE
    /\ run = 0
    /\ queue = <<>>
    /\ bar = 0
    /\ fetched = <<>>
    /\ outcome = <<>>
    /\ puts = <<>>
    /\ updates = <<>>

NextGen == chunk_next \/ make_order_call

SpecGen == InitGen /\ [][NextGen]_vars

----------------------------------------------------------------------------
(* Claims about acquisition, checked under Spec *)

Started == run > 0

Occurrences(q, i) == Cardinality({k \in 1..Len(q) : q[k] = i})

Raised == {i \in Tasks : outcome[i] = "raise"}

\* a step of the current invocation other than its start
Progress ==
    \/ pool_submit
    \/ download_images_return
    \/ worker_take
    \/ \E i \in Tasks : download_image_check(i)
    \/ \E i \in Tasks, result \in FetchResults, wrote \in BOOLEAN :
           download_image_fetch_return(i, result, wrote)
    \/ \E i \in Tasks : download_image_verify(i)
    \/ \E i \in Tasks : download_image_put(i)
    \/ \E i \in Tasks : download_image_update(i)

\* C1, as the claim states it: download_images has returned only when every card
\* of the collection has been put on the completion queue.
C1_ReturnedOnlyAfterAllQueued ==
    (Started /\ returned) => \A i \in Tasks : Occurrences(queue, i) = 1

\* C1, amended: download_images has returned only when a download task has been
\* submitted to the pool for every card of the collection (it awaits none of them).
C1_ReturnedOnlyAfterAllSubmitted ==
    (Started /\ returned) => (submitted = N /\ \A i \in Tasks : pc[i] # "idle")

\* download_images has returned while no card is on the queue and a task still
\* waits for a pool thread
C1_Witness ==
    Started /\ returned /\ queue = <<>> /\ N >= 2 /\ workq # <<>>

\* C2: when the fetch raises for exactly one card, the exception stays inside that
\* card's task (the task goes on to its finally clause), the pool is never stuck
\* while a task is unfinished, and once all tasks are over every card has been put
\* on the queue once and the progress counter has been updated once per card.
C2_FaultIsolation ==
    Cardinality(Raised) = 1 =>
        /\ \A i \in Raised : pc[i] \in {"put", "update", "done"}
        /\ (Started /\ ~AllDone) => ENABLED Progress
        /\ AllDone =>
             /\ \A i \in Tasks : puts[i] = 1 /\ updates[i] = 1
             /\ Len(queue) = N
             /\ bar = run * N
             /\ worker = {}

\* all tasks of a collection of several cards are over, exactly one fetch raised
\* and another card was downloaded
C2_Witness ==
    /\ Started /\ AllDone /\ N >= 2
    /\ Cardinality(Raised) = 1
    /\ \E j \in Tasks : outcome[j] = "ok" /\ cards[j].downloaded

\* C3: in one invocation every card is put on the queue at most once and the counter
\* is updated at most once for it, under every interleaving and whatever its task's
\* outcome; a finished task has done both exactly once; the queue holds each card as
\* often as it was put, and once all tasks are over it holds exactly the N cards and
\* the counter has advanced by N.
C3_ExactlyOnce ==
    /\ \A i \in Tasks :
         /\ puts[i] <= 1 /\ updates[i] <= 1
         /\ pc[i] = "done" => (puts[i] = 1 /\ updates[i] = 1)
         /\ Occurrences(queue, i) = puts[i]
    /\ Started => bar = (run - 1) * N + Cardinality({i \in Tasks : updates[i] = 1})
    /\ (Started /\ AllDone) =>
         /\ Len(queue) = N
         /\ \A i \in Tasks : Occurrences(queue, i) = 1
         /\ bar = run * N

\* all tasks are over with a failed fetch and a raised fetch among them, and the
\* cards reached the queue out of submission order
C3_Witness ==
    /\ Started /\ AllDone /\ N >= 2
    /\ \E j, k \in Tasks : outcome[j] = "fail" /\ outcome[k] = "raise"
    /\ queue[1] # 1

\* C4, as the claim states it: a second invocation that follows a completed one on
\* the same collection, with no other change to the files, never calls the fetch
\* primitive.
C4_SecondRunFetchesNothing ==
    run >= 2 => \A i \in Tasks : fetched[i] = 0

\* C5, as the claim states it: a card whose fetch raised is on the queue with
\* errored = true and downloaded = false.
C5_RaisedIsErrored ==
    \A i \in Tasks :
        (outcome[i] = "raise" /\ Occurrences(queue, i) >= 1) =>
            (cards[i].errored /\ ~cards[i].downloaded)

\* C6: within one invocation the fetch primitive is called at most once for a card,
\* only by the skip check of its task, and that check calls it exactly when it finds
\* the target file missing, the card not errored and its path not None.
C6_FetchExactlyWhenNeeded ==
    [][run' = run =>
         \A i \in Tasks :
            LET needed == /\ ~file_exists(cards[i].file_path, fs)
                          /\ ~cards[i].errored
                          /\ cards[i].file_path # None
            IN  /\ fetched'[i] <= 1
                /\ fetched'[i] # fetched[i] =>
                      (pc[i] = "check" /\ fetched'[i] = fetched[i] + 1)
                /\ (pc[i] = "check" /\ pc'[i] # "check") =>
                      /\ (fetched'[i] = fetched[i] + 1) <=> needed
                      /\ (pc'[i] = "fetching") <=> needed
                      /\ (pc'[i] = "verify") <=> ~needed]_vars

\* in a second invocation one card is fetched and another is skipped because it is
\* errored, although its file is missing
C6_Witness ==
    /\ run = 2 /\ AllDone
    /\ \E i, j \in Tasks :
         /\ fetched[i] = 1
         /\ fetched[j] = 0 /\ cards[j].errored /\ cards[j].file_path # None
              /\ ~file_exists(cards[j].file_path, fs)

\* C17: a card whose fetch returned failure is errored and not downloaded; downloaded
\* becomes true only in the verification step of the card's task, and then the
\* target file exists and the card is not errored; and when the fetch returned
\* success, that step sets downloaded exactly when it finds the target file.
C17_FetchOutcomeHandling ==
    [][\A i \in Tasks :
          /\ outcome'[i] = "fail" => (cards'[i].errored /\ ~cards'[i].downloaded)
          /\ (~cards[i].downloaded /\ cards'[i].downloaded) =>
                /\ pc[i] = "verify"
                /\ outcome[i] # "fail"
                /\ file_exists(cards'[i].file_path, fs')
                /\ ~cards'[i].errored
          /\ (outcome[i] = "ok" /\ pc[i] = "verify" /\ pc'[i] # "verify") =>
                (cards'[i].downloaded <=> file_exists(cards[i].file_path, fs))]_vars

\* the tasks are over: one card's fetch returned success without producing the file
\* and the card is not downloaded, another's returned success and it is downloaded
C17_Witness ==
    /\ Started /\ AllDone
    /\ \E i, j \in Tasks :
         /\ outcome[i] = "ok" /\ ~cards[i].downloaded /\ ~cards[i].errored
         /\ ~file_exists(cards[i].file_path, fs)
         /\ outcome[j] = "ok" /\ cards[j].downloaded

----------------------------------------------------------------------------
(* Claims about invocations between which files change, checked under SpecFiles *)

\* C21, as the claim states it: whatever the fetch outcomes and the files created or
\* deleted between invocations, no card is ever both downloaded and errored, and no
\* step resets a card's errored flag.
C21_StatusConsistentAcrossRuns ==
    [][\A i \in Tasks :
          /\ ~(cards'[i].downloaded /\ cards'[i].errored)
          /\ cards[i].errored => cards'[i].errored]_vars

----------------------------------------------------------------------------
(* Claims about the completion of a batch, checked under SpecLive *)

\* every fetch call made for card i ends, by returning or by raising
FetchEnds(i) == []<>(i \in Tasks => pc[i] # "fetching")

Queued(i) == Occurrences(queue, i) = 1

\* C15: if every fetch call ends, an invocation leads to all N cards being on the
\* completion queue; and whichever card h it is whose fetch may never end, if the
\* fetch calls of the other cards end, the invocation leads to all the other cards
\* being on the queue (the pool has a second thread).
C15_BatchCompletion ==
    /\ (\A i \in 1..LiveCards : FetchEnds(i)) =>
          (Started ~> \A i \in Tasks : Queued(i))
    /\ \A h \in 1..LiveCards :
          (\A i \in (1..LiveCards) \ {h} : FetchEnds(i)) =>
              (Started ~> \A i \in Tasks \ {h} : Queued(i))

\* a fetch is still going on while the two cards submitted after it are on the
\* queue and their tasks are over
C15_Witness ==
    /\ N > Workers
    /\ pc[1] = "fetching"
    /\ \A j \in Tasks \ {1} : pc[j] = "done" /\ Queued(j)
    /\ \E j \in Tasks : outcome[j] = "raise"


\* C7: whenever the parsed values have quantity > bracket, quantity <= 0, a bracket
\* or a stock outside the allowed sets, or the foil-incompatible stock with foil,
\* construction ends in a ValidationException and no Details is handed on; every
\* Details that is constructed satisfies 0 < quantity <= bracket, has an allowed
\* bracket and stock, and is not the disallowed foil combination.
C7_DetailsValidation ==
    LET d == Details_parse(doc.details)
        bad == \/ d.quantity > d.bracket
               \/ d.quantity <= 0
               \/ d.bracket \notin BRACKETS
               \/ d.stock \notin Cardstocks
               \/ (d.stock = P10 /\ d.foil)
    IN  /\ (phase # "details" /\ ~Details_unparsable(doc.details)) =>
             /\ bad => /\ phase = "exit"
                       /\ exitmsg.type = "ValidationException"
                       /\ details = NoDetails
             /\ ~bad => (phase = "fronts" /\ details = d)
        /\ phase = "fronts" =>
             /\ 0 < details.quantity /\ details.quantity <= details.bracket
             /\ details.bracket \in BRACKETS
             /\ details.stock \in Cardstocks
             /\ ~(details.stock = P10 /\ details.foil)

\* construction has exited on the foil rule, for values every other rule admits
C7_Witness ==
    /\ phase = "exit"
    /\ exitmsg.rule = "foil"
    /\ Details_parse(doc.details).quantity = 18
    /\ Details_parse(doc.details).bracket = 18

----------------------------------------------------------------------------
(* Claims about order construction, checked under SpecOrder *)

Faces == {"front", "back"}

Collection(face) == IF face = "front" THEN fronts ELSE backs

\* the images CardImageCollection.from_element has built for a face so far
Built(face) == IF phase = FacePhase(face) THEN building ELSE Collection(face).cards

Pathless == \E face \in Faces : \E k \in 1..Len(Collection(face).cards) :
                Collection(face).cards[k].file_path = None

\* C8, as the claim states it: the slots of the cards of every collection built lie
\* in [0, total_slots).
C8_SlotsWithinRange ==
    \A face \in Faces :
        slots_of(Collection(face).cards) \subseteq all_slots(Collection(face).num_slots)

\* C9: a download_image task begins only for a constructed order, all of whose
\* images, fronts and backs, have a path; an order holding an image without a path
\* is never constructed and none of its collections is downloaded, and the
\* file-path error is raised only for such an order.
C9_PathsResolvedBeforeAcquisition ==
    /\ (target # "none" \/ run > 0 \/ \E i \in Tasks : pc[i] # "idle") =>
          /\ phase = "built"
          /\ \A i \in Tasks : cards[i].file_path # None
    /\ phase = "built" => ~Pathless
    /\ Pathless => (phase \in {"backs", "order", "exit"} /\ target = "none" /\ run = 0)
    /\ (phase = "exit" /\ exitmsg.rule = "file_path") => Pathless

\* a download task of the back face is fetching, for an order with two fronts and
\* a fill image among its backs
C9_Witness ==
    /\ target = "back"
    /\ \E i \in Tasks : pc[i] = "fetching"
    /\ Len(fronts.cards) = 2
    /\ Len(backs.cards) = 2

\* the lookups made for card elements of the document that answered nothing
FailedLookups ==
    {k \in 1..Len(lookups) :
        /\ lookups[k].answer = None
        /\ lookups[k].index <= Len(DocCards(lookups[k].face))
        /\ lookups[k].index <= Len(Built(lookups[k].face))}

ImageOf(l) == Built(l.face)[l.index]

\* C10, as the claim states it: a card entry without a name whose lookup answers
\* nothing yields an image with file_path = None, and no order holding it is
\* constructed.
C10_UnresolvableHasNoPath ==
    \A k \in FailedLookups :
        /\ ImageOf(lookups[k]).file_path = None
        /\ phase # "built"

\* C10, amended: such an entry yields file_path = None exactly when its drive id is
\* empty, and then no order holding the image is constructed; with a drive id the
\* path is that of "<id>.png" in the cards directory. The error of CardOrder.validate
\* names the slots (the drive id when it has no slots) of the first image without a
\* path, fronts before backs, a single back's slots being [0] by then.
C10_EmptyIdHasNoPath ==
    /\ \A k \in FailedLookups :
         LET l == lookups[k]
             image == ImageOf(l)
         IN  IF l.drive_id = <<>>
             THEN /\ image.file_path = None
                  /\ image.name = None
                  /\ image.errored
                  /\ phase # "built"
             ELSE /\ image.file_path = path_join(image_directory, sanitize(l.drive_id \o PNG))
                  /\ image.name = l.drive_id \o PNG
                  /\ ~image.errored
    /\ (phase = "exit" /\ exitmsg.rule = "file_path") =>
         LET face == IF \E k \in 1..Len(fronts.cards) : no_file_path(fronts.cards[k])
                     THEN "front" ELSE "back"
             image == first_rejected(Collection(face).cards)
         IN  /\ image.file_path = None
             /\ exitmsg.type = "ValidationException"
             /\ exitmsg.face = face
             /\ exitmsg.value = IF image.slots # <<>> THEN image.slots ELSE image.drive_id
             /\ face = "back" /\ Len(backs.cards) = 1 => exitmsg.value = <<0>>

\* order validation has failed naming slot 1 of a front card with an empty drive
\* id whose lookup answered nothing
C10_Witness ==
    /\ phase = "exit"
    /\ exitmsg.rule = "file_path"
    /\ exitmsg.face = "front"
    /\ exitmsg.value = <<1>>
    /\ \E k \in FailedLookups : lookups[k].drive_id = <<>> /\ lookups[k].face = "front"

\* CardOrder.from_element has got as far as constructing the CardOrder
OrderReached == phase = "built" \/ (phase = "exit" /\ exitmsg.rule = "file_path")

\* the slots the document declares for the k-th back image, those of the fill image
\* being the slots no card element of the backs declares
DeclaredBackSlots(k) ==
    IF k <= Len(doc.backs) THEN doc.backs[k].slots
    ELSE SetToSeq((0..(details.quantity - 1)) \ slots_of(doc.backs))

\* C11: once CardOrder.from_element has constructed the order, a back collection of
\* exactly one image (the fill image of the cardback, or a single explicit back with
\* whatever slots it declared) has that image on slot 0 alone, and in a back
\* collection of two or more images every image has the slots the document gave it.
C11_ForcedSingleBack ==
    OrderReached =>
        IF Len(backs.cards) = 1
        THEN backs.cards[1].slots = <<0>>
        ELSE \A k \in 1..Len(backs.cards) : backs.cards[k].slots = DeclaredBackSlots(k)

\* an order of three cards is constructed whose only back image is an explicit one
\* that declared slots 0 and 1
C11_Witness ==
    /\ phase = "built"
    /\ details.quantity = 3
    /\ Len(backs.cards) = 1
    /\ Len(doc.backs) = 1
    /\ doc.backs[1].slots = <<0, 1>>

\* the slots of [0, total_slots) no card element of the backs declares
UncoveredBackSlots == (0..(details.quantity - 1)) \ slots_of(doc.backs)

\* C12: the back collection CardImageCollection.from_element returns, given the
\* cardback as fallback identifier, holds the images of the card elements followed,
\* when a slot of [0, total_slots) is uncovered, by exactly one fill image that has
\* the stripped cardback as drive id and exactly the uncovered slots, none of them a
\* declared slot, so that every slot is covered; without a cardback, or without an
\* uncovered slot, it holds the images of the card elements alone. The fronts are
\* given no fallback identifier and hold the images of their card elements alone.
C12_FillSynthesis ==
    /\ phase = "order" =>
         LET n == Len(doc.backs)
             cs == backs.cards
         IN  /\ \A k \in 1..n : k <= Len(cs) /\ cs[k].slots = doc.backs[k].slots
             /\ IF doc.cardback # None /\ doc.cardback # <<>> /\ UncoveredBackSlots # {}
                THEN /\ Len(cs) = n + 1
                     /\ cs[n + 1].drive_id = strip(doc.cardback)
                     /\ Range(cs[n + 1].slots) = UncoveredBackSlots
                     /\ Len(cs[n + 1].slots) = Cardinality(UncoveredBackSlots)
                     /\ Range(cs[n + 1].slots) \cap slots_of(doc.backs) = {}
                     /\ (0..(details.quantity - 1)) \subseteq slots_of(cs)
                ELSE Len(cs) = n
    /\ phase \in {"backs", "order", "built"} => Len(fronts.cards) = Len(doc.fronts)

\* the back collection of an order of three cards has just been built from one card
\* element on slots 0 and 1 and a cardback: the fill image is on slot 2
C12_Witness ==
    /\ phase = "order"
    /\ details.quantity = 3
    /\ Len(doc.backs) = 1
    /\ Len(backs.cards) = 2
    /\ backs.cards[2].slots = <<2>>
    /\ backs.cards[2].drive_id = IdX

\* order construction has ended in a fatal error
Aborted == phase \in {"exit", "crash"}

NothingFetched ==
    /\ target = "none"
    /\ run = 0
    /\ cards = <<>>
    /\ \A i \in Tasks : fetched[i] = 0

SameIdentity(a, b) == a.drive_id = b.drive_id /\ a.name = b.name

\* the step leaves Details, the membership of the collections built and of the
\* collection being downloaded, and every image's remote id and display name as
\* they are; the collection being downloaded is a collection of the order
FrameButSlots ==
    /\ details # NoDetails => details' = details
    /\ \A face \in Faces :
          Collection(face) # NoCollection =>
              /\ Collection(face)'.num_slots = Collection(face).num_slots
              /\ Len(Collection(face)'.cards) = Len(Collection(face).cards)
              /\ \A k \in 1..Len(Collection(face).cards) :
                     SameIdentity(Collection(face).cards[k], Collection(face)'.cards[k])
    /\ \A k \in 1..Len(building) :
          /\ k <= Len(building') => building'[k] = building[k]
          /\ building' = <<>> =>
                \E face \in Faces :
                    /\ k <= Len(Collection(face)'.cards)
                    /\ Collection(face)'.cards[k] = building[k]
    /\ IF cards = <<>>
       THEN cards' # <<>> =>
               \E face \in Faces : target' = face /\ cards' = Collection(face).cards
       ELSE /\ Len(cards') = Len(cards)
            /\ \A i \in Tasks : /\ SameIdentity(cards[i], cards'[i])
                                 /\ cards'[i].slots = cards[i].slots

\* C20, as the claim states it: no step after an image's construction changes its
\* slots, remote id or display name, and Details and the membership of the
\* collections never change after construction.
C20_EntitiesImmutable ==
    [][/\ FrameButSlots
       /\ \A face \in Faces :
             \A k \in 1..Len(Collection(face).cards) :
                 Collection(face)'.cards[k].slots = Collection(face).cards[k].slots]_vars

\* C20, amended: as stated, except that the step of CardOrder.from_element that
\* follows the construction of the back collection replaces the slots of a back
\* image that is alone in its collection by [0]; it changes no slots of a back
\* collection of two or more images, and no other step changes any slots.
C20_ImmutableButSingleBackSlots ==
    [][/\ FrameButSlots
       /\ \A k \in 1..Len(fronts.cards) : fronts'.cards[k].slots = fronts.cards[k].slots
       /\ \A k \in 1..Len(backs.cards) :
             backs'.cards[k].slots =
                 IF phase = "order" /\ Len(backs.cards) = 1 THEN <<0>>
                 ELSE backs.cards[k].slots]_vars

\* the back of an order of three cards is the fill image alone, built on slots 0, 1
\* and 2; it was downloaded with slot 0 alone
C20_Witness ==
    /\ phase = "built"
    /\ details.quantity = 3
    /\ doc.backs = <<>>
    /\ target = "back"
    /\ N = 1
    /\ cards[1].slots = <<0>>
    /\ cards[1].downloaded
    /\ pc[1] = "done"

----------------------------------------------------------------------------
(* Claims about collections, checked under SpecCollection *)

\* CardImageCollection.from_element has ended for the face
Ended(face) ==
    \/ Collection(face) # NoCollection
    \/ phase = "exit" /\ exitmsg.face = face

\* the images from_element makes for the face: one per card element, and the fill
\* image of the backs
ImageCount(face) ==
    Len(DocCards(face)) +
    (IF face = "back" /\ doc.cardback # None /\ doc.cardback # <<>>
           /\ UncoveredBackSlots # {}
     THEN 1 ELSE 0)

WarningsOf(face) == {k \in 1..Len(warnings) : warnings[k].face = face}

\* C13: CardImageCollection.from_element ends in the fatal "no images" error exactly
\* when total_slots is zero or the collection holds no image; otherwise it returns
\* the collection with the images it made, their slots as declared, and warns once,
\* listing the slots of [0, total_slots) that no image has in ascending order, when
\* there are such slots, and not at all when there are none.
C13_CollectionValidation ==
    \A face \in Faces :
        Ended(face) =>
            LET fatal == details.quantity = 0 \/ ImageCount(face) = 0
                c == Collection(face)
                missing == (0..(c.num_slots - 1)) \ slots_of(c.cards)
            IN  IF fatal
                THEN /\ phase = "exit"
                     /\ exitmsg = ValidationException("no images", face, <<>>)
                     /\ c = NoCollection
                     /\ WarningsOf(face) = {}
                ELSE /\ ~(phase = "exit" /\ exitmsg.face = face)
                     /\ c.num_slots = details.quantity
                     /\ Len(c.cards) = ImageCount(face)
                     /\ \A k \in 1..Len(DocCards(face)) :
                            c.cards[k].slots = DocCards(face)[k].slots
                     /\ IF missing = {}
                        THEN WarningsOf(face) = {}
                        ELSE /\ Cardinality(WarningsOf(face)) = 1
                             /\ \A k \in WarningsOf(face) :
                                    warnings[k].missing = SetToSeq(missing)

\* the fronts of three slots are built from one card on slot 0: the collection is
\* returned, with a warning that lists slots 1 and 2
C13_Witness ==
    /\ phase = "backs"
    /\ fronts.num_slots = 3
    /\ Len(fronts.cards) = 1
    /\ fronts.cards[1].slots = <<0>>
    /\ warnings = <<[face |-> "front", missing |-> <<1, 2>>]>>

----------------------------------------------------------------------------
(* Claims about path resolution, checked under SpecPath *)

\* the card element both executions start from, and its drive id
Entry == doc.fronts[1]

EntryId == IF Entry.id = None THEN <<>> ELSE strip(Entry.id)

\* what the name lookup answered in the k-th execution (None when it was not called)
AnswerOf(k) ==
    IF \E j \in 1..Len(lookups) : lookups[j].index = k
    THEN lookups[CHOOSE j \in 1..Len(lookups) : lookups[j].index = k].answer
    ELSE None

LookedUp(k) == \E j \in 1..Len(lookups) : lookups[j].index = k

Disambiguated(name, id) ==
    LET k == LastIndexOf(name, ".")
        stem == IF k = 0 THEN name ELSE SubSeq(name, 1, k - 1)
        ext == IF k = 0 THEN <<>> ELSE SubSeq(name, k + 1, Len(name))
    IN  stem \o <<" ", "(">> \o id \o <<")", ".">> \o ext

\* the four-step reference: the display_name and resolved_path for a remote_id, a
\* display_name and a lookup answer, given the files f
Reference(id, name, answer, f) ==
    IF id # <<>> /\ id \in f.full
    THEN [name |-> basename(id), file_path |-> id]
    ELSE LET n == IF name \in {None, <<>>} THEN answer ELSE name
         IN  IF n = None
             THEN IF id # <<>>
                  THEN [name |-> id \o PNG,
                        file_path |-> image_directory \o <<"/">> \o sanitize(id \o PNG)]
                  ELSE [name |-> None, file_path |-> None]
             ELSE IF image_directory \o <<"/">> \o sanitize(n) \in f.full
                  THEN [name |-> n, file_path |-> image_directory \o <<"/">> \o sanitize(n)]
                  ELSE [name |-> n,
                        file_path |-> image_directory \o <<"/">>
                                          \o sanitize(Disambiguated(n, id))]

AgreesWithReference(k) ==
    LET r == Reference(EntryId, Entry.name, AnswerOf(k), fs)
    IN  building[k].name = r.name /\ building[k].file_path = r.file_path

\* C18, as the claim states it: generate_file_path always completes, with the name
\* and path the four-step reference gives.
C18_AgreesWithReference ==
    /\ phase # "crash"
    /\ \A k \in 1..Len(building) : AgreesWithReference(k)

\* C19: an image just constructed has errored true exactly when its name is None or
\* its path is None, and has downloaded false.
C19_StatusAtConstruction ==
    \A k \in 1..Len(building) :
        /\ building[k].errored <=> (building[k].name = None \/ building[k].file_path = None)
        /\ ~building[k].downloaded

\* an image is constructed errored, without name or path, from an element without
\* drive id whose lookup answered nothing; another is constructed not errored
C19_Witness ==
    /\ Len(building) = 2
    /\ building[1].errored /\ building[1].file_path = None /\ building[1].name = None
    /\ ~building[2].errored /\ building[2].file_path # None

----------------------------------------------------------------------------
(* Claims about the generated order documents, checked under SpecGen *)

Last(q) == q[Len(q)]

\* C22: the order document made of a chunk is made without error, of a chunk of 1 to
\* 612 entries; its quantity is the number of entries of the chunk; the slot lists
\* of its front cards are non-empty runs of consecutive numbers that start at 0,
\* follow one another and end at quantity - 1, each slot holding the image of the
\* chunk's entry of that position; and its bracket is the smallest value of the
\* bracket list that is at least the quantity, so that 0 < quantity <= bracket.
C22_GeneratedDocumentWellFormed ==
    order # NoOrder =>
        LET q == Len(chunked)
            cs == order.fronts
            b == order.details.bracket.val
        IN  /\ order.error = "none"
            /\ 1 <= q /\ q <= ChunkSize
            /\ order.details.quantity = IntText(q)
            /\ cs # <<>>
            /\ \A k \in 1..Len(cs) :
                  /\ cs[k].slots # <<>>
                  /\ \A j \in 1..(Len(cs[k].slots) - 1) :
                        cs[k].slots[j + 1] = cs[k].slots[j] + 1
                  /\ cs[k].slots[1] = IF k = 1 THEN 0 ELSE Last(cs[k - 1].slots) + 1
                  /\ \A j \in 1..Len(cs[k].slots) :
                        cs[k].id = image_path(chunked[cs[k].slots[j] + 1])
            /\ Last(Last(cs).slots) = q - 1
            /\ order.details.bracket.kind = "int"
            /\ \E k \in 1..Len(make_order_brackets) :
                  /\ make_order_brackets[k] = b
                  /\ \A j \in 1..(k - 1) : make_order_brackets[j] < q
            /\ 0 < q /\ q <= b

\* an order of 612 cards in the bracket of 612 is made of a chunk of two runs, and
\* entries are left for another chunk
C22_Witness ==
    /\ order # NoOrder
    /\ order.error = "none"
    /\ Len(chunked) = 612
    /\ order.details.bracket = IntText(612)
    /\ Len(order.fronts) = 2
    /\ deck # <<>>

====
